---------------------------- MODULE Spec2Model ----------------------------
(***************************************************************************)
(* Azure VNet IP address checker: the validator (utils/ip_validator.py)    *)
(* and the analyzer (core/subnet_analyzer.py), as driven by main.py.       *)
(*                                                                         *)
(* Strings are sequences of one-character strings, so that parsing and     *)
(* formatting are computed character by character.  An IPv4 address is the *)
(* tuple of its four octets (most significant first): its 32-bit value     *)
(* does not fit the checker's integers, and the order of the tuples, octet *)
(* by octet, is the order of the values.  A network is a record            *)
(* [network_address, prefixlen], the two fields ipaddress.IPv4Network      *)
(* keeps.                                                                  *)
(***************************************************************************)
EXTENDS Integers, Sequences, FiniteSets, TLC

(***************************************************************************)
(* str methods used by the sources.                                        *)
(***************************************************************************)
Digits == {"0", "1", "2", "3", "4", "5", "6", "7", "8", "9"}

Whitespace == {" ", "\t", "\n", "\r"}

DigitValue(c) ==
    CASE c = "0" -> 0 [] c = "1" -> 1 [] c = "2" -> 2 [] c = "3" -> 3
      [] c = "4" -> 4 [] c = "5" -> 5 [] c = "6" -> 6 [] c = "7" -> 7
      [] c = "8" -> 8 [] c = "9" -> 9

DigitChar(n) ==
    CASE n = 0 -> "0" [] n = 1 -> "1" [] n = 2 -> "2" [] n = 3 -> "3"
      [] n = 4 -> "4" [] n = 5 -> "5" [] n = 6 -> "6" [] n = 7 -> "7"
      [] n = 8 -> "8" [] n = 9 -> "9"

RECURSIVE lstrip(_)
lstrip(s) ==
    IF s # <<>> /\ Head(s) \in Whitespace THEN lstrip(Tail(s)) ELSE s

RECURSIVE rstrip(_)
rstrip(s) ==
    IF s # <<>> /\ s[Len(s)] \in Whitespace
    THEN rstrip(SubSeq(s, 1, Len(s) - 1))
    ELSE s

\* str.strip()
strip(s) == rstrip(lstrip(s))

\* str.lower(), on the letters the confirmation answers are written with
LowerChar(c) ==
    CASE c = "Y" -> "y" [] c = "E" -> "e" [] c = "S" -> "s"
      [] c = "N" -> "n" [] c = "O" -> "o" [] OTHER -> c

lower(s) == [i \in 1..Len(s) |-> LowerChar(s[i])]

\* sep in s
contains_char(s, sep) == \E i \in 1..Len(s) : s[i] = sep

\* str.split(sep): the pieces between the separators, empty pieces kept
RECURSIVE split(_, _)
split(s, sep) ==
    IF ~contains_char(s, sep)
    THEN <<s>>
    ELSE LET i == CHOOSE k \in 1..Len(s) :
                      s[k] = sep /\ \A j \in 1..(k - 1) : s[j] # sep
         IN  <<SubSeq(s, 1, i - 1)>> \o split(SubSeq(s, i + 1, Len(s)), sep)

\* str.isascii() and str.isdigit()
isdigit(s) == s # <<>> /\ \A i \in 1..Len(s) : s[i] \in Digits

\* int(s, 10) of a string of decimal digits
RECURSIVE int(_)
int(s) ==
    IF s = <<>> THEN 0
    ELSE 10 * int(SubSeq(s, 1, Len(s) - 1)) + DigitValue(s[Len(s)])

\* str(n) of a natural number
RECURSIVE str_int(_)
str_int(n) ==
    IF n < 10 THEN <<DigitChar(n)>>
    ELSE str_int(n \div 10) \o <<DigitChar(n % 10)>>

RECURSIVE lstrip_zeros(_)
lstrip_zeros(s) ==
    IF s # <<>> /\ Head(s) = "0" THEN lstrip_zeros(Tail(s)) ELSE s

(***************************************************************************)
(* Values and exceptions.  A call either returns a value or raises: the    *)
(* field exc is "none" or the name of the exception raised.                *)
(***************************************************************************)
MaxPrefixLen == 32

NoAddress == <<0, 0, 0, 0>>

NoNetwork == [network_address |-> NoAddress, prefixlen |-> 0]

Returns(v) == [exc |-> "none", val |-> v]

Raises(e, dummy) == [exc |-> e, val |-> dummy]

(***************************************************************************)
(* ipaddress: parsing an address.                                          *)
(***************************************************************************)
\* IPv4Address._parse_octet: TRUE when the octet string is accepted
parse_octet_ok(octet_str) ==
    /\ octet_str # <<>>
    /\ isdigit(octet_str)
    /\ Len(octet_str) <= 3
    /\ ~(octet_str # <<"0">> /\ octet_str[1] = "0")
    /\ int(octet_str) <= 255

\* the end of _ip_int_from_string, on the pieces between the dots
octets_to_int(octets) ==
    IF Len(octets) # 4 THEN Raises("AddressValueError", NoAddress)
    ELSE IF \E i \in 1..4 : ~parse_octet_ok(octets[i])
         THEN Raises("AddressValueError", NoAddress)
         ELSE Returns([i \in 1..4 |-> int(octets[i])])

\* IPv4Address._ip_int_from_string: the four octets, or AddressValueError
ip_int_from_string(ip_str) ==
    IF ip_str = <<>> THEN Raises("AddressValueError", NoAddress)
    ELSE octets_to_int(split(ip_str, "."))

\* ipaddress.IPv4Address(address) of a string
IPv4Address(address) ==
    IF contains_char(address, "/")
    THEN Raises("AddressValueError", NoAddress)
    ELSE ip_int_from_string(address)

(***************************************************************************)
(* ipaddress: bits, masks and the order of addresses.                      *)
(***************************************************************************)
\* 2^n
Pow2(n) == 2 ^ n

\* the number of bits of octet i (1..4) that a prefix of length p fixes
KeepBits(p, i) ==
    IF p >= 8 * i THEN 8
    ELSE IF p <= 8 * (i - 1) THEN 0
    ELSE p - 8 * (i - 1)

\* IPv4Network.netmask (_ip_int_from_prefix), octet by octet
netmask(p) == [i \in 1..4 |-> 256 - Pow2(8 - KeepBits(p, i))]

\* IPv4Network.hostmask
hostmask(p) == [i \in 1..4 |-> Pow2(8 - KeepBits(p, i)) - 1]

\* addr & netmask(p): in each octet the bits below the mask are cleared
and_netmask(addr, p) ==
    [i \in 1..4 |-> addr[i] - (addr[i] % Pow2(8 - KeepBits(p, i)))]

\* IPv4Address.__lt__ and __le__ (the order of the 32-bit values)
addr_lt(x, y) ==
    \E i \in 1..4 : x[i] < y[i] /\ \A j \in 1..(i - 1) : x[j] = y[j]

addr_le(x, y) == x = y \/ addr_lt(x, y)

\* the 32 bits of an address, most significant first
bits(addr) ==
    [k \in 1..32 |->
        (addr[((k - 1) \div 8) + 1] \div Pow2(7 - ((k - 1) % 8))) % 2]

\* ip_int ^ _ALL_ONES
invert(addr) == [i \in 1..4 |-> 255 - addr[i]]

\* _count_righthand_zero_bits(ip_int, 32), on the bits b of ip_int
count_righthand_zero_bits(b) ==
    IF \A k \in 1..32 : b[k] = 0 THEN 32
    ELSE 32 - (CHOOSE k \in 1..32 : b[k] = 1 /\ \A j \in (k + 1)..32 : b[j] = 0)

\* the test of _prefix_from_ip_int: leading_ones == all_ones
leading_ones_only(b, prefixlen) ==
    IF \A k \in 1..prefixlen : b[k] = 1
    THEN Returns(prefixlen)
    ELSE Raises("ValueError", 0)

\* _prefix_from_ip_int, on the bits b of ip_int: the prefix length of a
\* netmask, or ValueError when the pattern mixes zeroes and ones
prefix_from_bits(b) == leading_ones_only(b, 32 - count_righthand_zero_bits(b))

\* _prefix_from_ip_int
prefix_from_ip_int(addr) == prefix_from_bits(bits(addr))

\* the end of _prefix_from_prefix_string, on the digits without their
\* leading zeros: int() accepts leading zeros, and a number of more than
\* two significant digits is above 32
prefix_from_digits(digits) ==
    IF Len(digits) > 2 THEN Raises("NetmaskValueError", 0)
    ELSE IF int(digits) > MaxPrefixLen THEN Raises("NetmaskValueError", 0)
    ELSE Returns(int(digits))

\* _prefix_from_prefix_string
prefix_from_prefix_string(prefixlen_str) ==
    IF ~isdigit(prefixlen_str) THEN Raises("NetmaskValueError", 0)
    ELSE prefix_from_digits(lstrip_zeros(prefixlen_str))

\* the two tries of _prefix_from_ip_string: as a netmask, else as a hostmask
netmask_or_hostmask(as_netmask, as_hostmask) ==
    IF as_netmask.exc = "none" THEN as_netmask
    ELSE IF as_hostmask.exc = "none" THEN as_hostmask
    ELSE Raises("NetmaskValueError", 0)

\* _prefix_from_ip_string after its call of _ip_int_from_string
prefix_from_mask_int(ip_int) ==
    IF ip_int.exc # "none" THEN Raises("NetmaskValueError", 0)
    ELSE netmask_or_hostmask(prefix_from_ip_int(ip_int.val),
                             prefix_from_ip_int(invert(ip_int.val)))

\* _prefix_from_ip_string: a dotted netmask, else a dotted hostmask
prefix_from_ip_string(ip_str) == prefix_from_mask_int(ip_int_from_string(ip_str))

\* the try/except of _make_netmask
prefix_or_dotted(as_prefix, as_dotted) ==
    IF as_prefix.exc = "none" THEN as_prefix ELSE as_dotted

\* IPv4Network._make_netmask of a string: the prefix length
make_netmask(arg) ==
    prefix_or_dotted(prefix_from_prefix_string(arg), prefix_from_ip_string(arg))

\* the end of _split_optional_netmask, on the pieces between the slashes
at_most_one_slash(addr) ==
    IF Len(addr) > 2 THEN Raises("AddressValueError", <<>>) ELSE Returns(addr)

\* _split_optional_netmask
split_optional_netmask(address) == at_most_one_slash(split(address, "/"))

\* network_from that keeps the host bits of the address as written
network_from_keeps_host_bits(addr, mask) ==
    IF addr.exc # "none" THEN Raises("AddressValueError", NoNetwork)
    ELSE IF mask.exc # "none" THEN Raises("NetmaskValueError", NoNetwork)
    ELSE Returns([network_address |-> addr.val, prefixlen |-> mask.val])

\* IPv4Network.__init__ after the address and the mask were parsed: with
\* strict=False the host bits are cleared
network_from(addr, mask) ==
    IF addr.exc # "none" THEN Raises("AddressValueError", NoNetwork)
    ELSE IF mask.exc # "none" THEN Raises("NetmaskValueError", NoNetwork)
    ELSE Returns([network_address |-> and_netmask(addr.val, mask.val),
                  prefixlen |-> mask.val])

\* IPv4Network.__init__ after _split_addr_prefix: the address is parsed
\* first, then the mask (/32 when there is none)
network_from_parts(parts) ==
    IF parts.exc # "none" THEN Raises("AddressValueError", NoNetwork)
    ELSE network_from(IPv4Address(parts.val[1]),
                      IF Len(parts.val) > 1
                      THEN make_netmask(parts.val[2])
                      ELSE Returns(MaxPrefixLen))

\* ipaddress.IPv4Network(address, strict=False) of a string
IPv4Network(address) == network_from_parts(split_optional_netmask(address))

\* str(IPv4Address)
str_address(addr) ==
    str_int(addr[1]) \o <<".">> \o str_int(addr[2]) \o <<".">>
        \o str_int(addr[3]) \o <<".">> \o str_int(addr[4])

\* str(IPv4Network): '%s/%d' % (network_address, prefixlen)
str_network(net) ==
    str_address(net.network_address) \o <<"/">> \o str_int(net.prefixlen)

(***************************************************************************)
(* ipaddress: relations between networks.                                  *)
(***************************************************************************)
\* IPv4Network.broadcast_address: network_address | hostmask
broadcast_address(net) ==
    [i \in 1..4 |-> net.network_address[i] + hostmask(net.prefixlen)[i]]

\* address_in under a mask one bit shorter than the network's
address_in_shorter_mask(addr, net) ==
    IF net.prefixlen = 0 THEN TRUE
    ELSE and_netmask(addr, net.prefixlen - 1)
             = and_netmask(net.network_address, net.prefixlen - 1)

\* _BaseNetwork.__contains__ of an address:
\* other._ip & self.netmask._ip == self.network_address._ip
address_in(addr, net) ==
    and_netmask(addr, net.prefixlen) = net.network_address

\* _BaseNetwork.__eq__
network_eq(a, b) ==
    a.network_address = b.network_address /\ netmask(a.prefixlen) = netmask(b.prefixlen)

\* _is_subnet_of with the comparison of the broadcast addresses left out
is_subnet_of_first_only(a, b) ==
    addr_le(b.network_address, a.network_address)

\* _is_subnet_of with the broadcast addresses compared strictly
is_subnet_of_strict_end(a, b) ==
    /\ addr_le(b.network_address, a.network_address)
    /\ addr_lt(broadcast_address(a), broadcast_address(b))

\* _BaseNetwork._is_subnet_of(a, b)
is_subnet_of(a, b) ==
    /\ addr_le(b.network_address, a.network_address)
    /\ addr_le(broadcast_address(a), broadcast_address(b))

\* subnet_of with the arguments of _is_subnet_of in the order of supernet_of
subnet_of_swapped(self, other) == is_subnet_of(other, self)

\* network.subnet_of(other)
subnet_of(self, other) == is_subnet_of(self, other)

\* network.supernet_of(other)
supernet_of(self, other) == is_subnet_of(other, self)

\* network.overlaps(other)
overlaps(self, other) ==
    \/ address_in(self.network_address, other)
    \/ address_in(broadcast_address(self), other)
    \/ address_in(other.network_address, self)
    \/ address_in(broadcast_address(other), self)

Net(a, b, c, d, p) == [network_address |-> <<a, b, c, d>>, prefixlen |-> p]

\* _IPv4Constants._multicast_network
multicast_network == Net(224, 0, 0, 0, 4)

\* _IPv4Constants._public_network
public_network == Net(100, 64, 0, 0, 10)

\* _IPv4Constants._private_networks
private_networks ==
    { Net(0, 0, 0, 0, 8), Net(10, 0, 0, 0, 8), Net(127, 0, 0, 0, 8),
      Net(169, 254, 0, 0, 16), Net(172, 16, 0, 0, 12), Net(192, 0, 0, 0, 29),
      Net(192, 0, 0, 170, 31), Net(192, 0, 2, 0, 24), Net(192, 168, 0, 0, 16),
      Net(198, 18, 0, 0, 15), Net(198, 51, 100, 0, 24),
      Net(203, 0, 113, 0, 24), Net(240, 0, 0, 0, 4),
      Net(255, 255, 255, 255, 32) }

\* _BaseNetwork.is_multicast
is_multicast(net) ==
    /\ address_in(net.network_address, multicast_network)
    /\ address_in(broadcast_address(net), multicast_network)

\* _BaseNetwork.is_private
is_private(net) ==
    \E priv_network \in private_networks :
        /\ address_in(net.network_address, priv_network)
        /\ address_in(broadcast_address(net), priv_network)

\* IPv4Network.is_global
is_global(net) ==
    /\ ~(/\ address_in(net.network_address, public_network)
         /\ address_in(broadcast_address(net), public_network))
    /\ ~is_private(net)

(***************************************************************************)
(* utils/ip_validator.py                                                   *)
(***************************************************************************)
ClassEStart == <<240, 0, 0, 0>>

Outcome(valid, net, err, asked) ==
    [is_valid |-> valid, network |-> net, error |-> err, prompted |-> asked]

\* validate_network with the public-address check ahead of the multicast
\* and Class E checks
validate_network_public_first(net, answer) ==
    IF is_global(net) /\ lower(strip(answer)) \notin {<<"y">>, <<"y", "e", "s">>}
    THEN Outcome(FALSE, NoNetwork, "Operation cancelled by user", TRUE)
    ELSE IF is_multicast(net)
    THEN Outcome(FALSE, NoNetwork,
                 "Multicast addresses are not supported in VNet", is_global(net))
    ELSE IF addr_le(ClassEStart, net.network_address)
    THEN Outcome(FALSE, NoNetwork, "Class E addresses are not supported",
                 is_global(net))
    ELSE Outcome(TRUE, net, "", is_global(net))

\* validate_network with a confirmation that defaults to yes
validate_network_default_yes(net, answer) ==
    IF is_multicast(net)
    THEN Outcome(FALSE, NoNetwork,
                 "Multicast addresses are not supported in VNet", FALSE)
    ELSE IF addr_le(ClassEStart, net.network_address)
    THEN Outcome(FALSE, NoNetwork, "Class E addresses are not supported", FALSE)
    ELSE IF is_global(net)
    THEN IF lower(strip(answer)) \notin {<<>>, <<"y">>, <<"y", "e", "s">>}
         THEN Outcome(FALSE, NoNetwork, "Operation cancelled by user", TRUE)
         ELSE Outcome(TRUE, net, "", TRUE)
    ELSE Outcome(TRUE, net, "", FALSE)

\* the checks of validate_input on a parsed network; answer is the line
\* input() reads when the confirmation is asked for
validate_network(net, answer) ==
    IF is_multicast(net)
    THEN Outcome(FALSE, NoNetwork,
                 "Multicast addresses are not supported in VNet", FALSE)
    ELSE IF addr_le(ClassEStart, net.network_address)
    THEN Outcome(FALSE, NoNetwork, "Class E addresses are not supported", FALSE)
    ELSE IF is_global(net)
    THEN LET confirm == lower(strip(answer))
         IN  IF confirm \notin {<<"y">>, <<"y", "e", "s">>}
             THEN Outcome(FALSE, NoNetwork, "Operation cancelled by user", TRUE)
             ELSE Outcome(TRUE, net, "", TRUE)
    ELSE Outcome(TRUE, net, "", FALSE)

\* validate_input from its second try on: the parsed string, the checks
validate_cidr(parsed, answer) ==
    IF parsed.exc # "none"
    THEN Outcome(FALSE, NoNetwork, "Invalid CIDR notation", FALSE)
    ELSE validate_network(parsed.val, answer)

\* validate_input after the strip: a string without '/' must be an
\* address and gets '/32' appended
validate_stripped(stripped, answer) ==
    IF ~contains_char(stripped, "/")
    THEN IF IPv4Address(stripped).exc # "none"
         THEN Outcome(FALSE, NoNetwork, "Invalid IP address format", FALSE)
         ELSE validate_cidr(IPv4Network(stripped \o <<"/", "3", "2">>), answer)
    ELSE validate_cidr(IPv4Network(stripped), answer)

\* IPValidator.validate_input
validate_input(ip_input, answer) ==
    IF strip(ip_input) = <<>>
    THEN Outcome(FALSE, NoNetwork, "Empty input provided", FALSE)
    ELSE validate_stripped(strip(ip_input), answer)

\* is_subnet_overlap with the supernet test ahead of the equality test
is_subnet_overlap_supernet_first(network1, network2) ==
    IF supernet_of(network1, network2) THEN "contains"
    ELSE IF network_eq(network1, network2) THEN "exact"
    ELSE IF subnet_of(network1, network2) THEN "contained"
    ELSE IF overlaps(network1, network2) THEN "overlap"
    ELSE "none"

\* IPValidator.is_subnet_overlap
is_subnet_overlap(network1, network2) ==
    IF network_eq(network1, network2) THEN "exact"
    ELSE IF supernet_of(network1, network2) THEN "contains"
    ELSE IF subnet_of(network1, network2) THEN "contained"
    ELSE IF overlaps(network1, network2) THEN "overlap"
    ELSE "none"

\* check_host_in_network without the test of the prefix length
check_host_in_network_any_prefix(host_network, subnet) ==
    address_in(host_network.network_address, subnet)

\* IPValidator.check_host_in_network
check_host_in_network(host_network, subnet) ==
    IF host_network.prefixlen = MaxPrefixLen
    THEN address_in(host_network.network_address, subnet)
    ELSE FALSE

(***************************************************************************)
(* core/subnet_analyzer.py                                                 *)
(***************************************************************************)
Buckets == {"exact", "contains", "contained", "overlap", "host_in_subnet"}

\* the results dictionary analyze_ip_usage builds before its loop
new_results(target_network, vnets) ==
    [target_network |-> str_network(target_network),
     is_host |-> target_network.prefixlen = MaxPrefixLen,
     matches |-> [k \in Buckets |-> <<>>],
     total_vnets_checked |-> Len(vnets),
     total_subnets_checked |-> 0]

\* append_match that puts the new match at the head of the list
append_match_at_head(results, key, match_info) ==
    [results EXCEPT !.matches[key] = <<match_info>> \o @]

\* results['matches'][key].append(match_info)
append_match(results, key, match_info) ==
    [results EXCEPT !.matches[key] = Append(@, match_info)]

\* file_match with 'contained' filed under 'contains'
file_match_contained_as_contains(results, relationship, match_info) ==
    IF relationship = "exact" THEN append_match(results, "exact", match_info)
    ELSE IF relationship \in {"contains", "contained"}
    THEN append_match(results, "contains", match_info)
    ELSE IF relationship = "overlap"
    THEN append_match(results, "overlap", match_info)
    ELSE results

\* the if/elif chain that files match_info under its relationship
file_match(results, relationship, match_info) ==
    IF relationship = "exact" THEN append_match(results, "exact", match_info)
    ELSE IF relationship = "contains"
    THEN append_match(results, "contains", match_info)
    ELSE IF relationship = "contained"
    THEN append_match(results, "contained", match_info)
    ELSE IF relationship = "overlap"
    THEN append_match(results, "overlap", match_info)
    ELSE results

\* _analyze_vnet, the body of "if relationship != 'none'"
file_vnet_match(results, vnet, vnet_network, relationship) ==
    IF relationship # "none"
    THEN Returns(file_match(results, relationship,
                            [vnet_name |-> vnet.name,
                             resource_group |-> vnet.resource_group,
                             type |-> "vnet_address_space",
                             network |-> str_network(vnet_network),
                             relationship |-> relationship]))
    ELSE Returns(results)

\* classify_prefix with the host check of _analyze_subnet applied to the
\* address prefix as well
classify_prefix_host_check(target_network, vnet, parsed, results) ==
    IF parsed.exc = "AddressValueError" THEN Returns(results)
    ELSE IF parsed.exc # "none" THEN Raises(parsed.exc, results)
    ELSE IF check_host_in_network(target_network, parsed.val)
    THEN Returns(append_match(results, "host_in_subnet",
                              [vnet_name |-> vnet.name,
                               resource_group |-> vnet.resource_group,
                               type |-> "vnet_address_space",
                               network |-> str_network(parsed.val),
                               relationship |-> "host_in_subnet"]))
    ELSE file_vnet_match(results, vnet, parsed.val,
                         is_subnet_overlap(target_network, parsed.val))

\* _analyze_vnet, the try statement on a parsed address prefix: the except
\* clause catches AddressValueError only, any other exception leaves the loop
classify_prefix(target_network, vnet, parsed, results) ==
    IF parsed.exc = "AddressValueError" THEN Returns(results)
    ELSE IF parsed.exc # "none" THEN Raises(parsed.exc, results)
    ELSE file_vnet_match(results, vnet, parsed.val,
                         is_subnet_overlap(target_network, parsed.val))

\* _analyze_vnet, the body of the loop over vnet['address_prefixes']
analyze_prefix(target_network, vnet, prefix, results) ==
    classify_prefix(target_network, vnet, IPv4Network(prefix), results)

\* the match_info dictionary _analyze_subnet builds
subnet_match_info(subnet, vnet_name, resource_group, subnet_network, relationship) ==
    [vnet_name |-> vnet_name,
     resource_group |-> resource_group,
     subnet_name |-> subnet.name,
     type |-> "subnet",
     network |-> str_network(subnet_network),
     relationship |-> relationship]

\* _analyze_subnet, "Check network relationships"
file_subnet_match(results, subnet, vnet_name, resource_group, subnet_network, relationship) ==
    IF relationship # "none"
    THEN Returns(file_match(results, relationship,
                            subnet_match_info(subnet, vnet_name, resource_group,
                                              subnet_network, relationship)))
    ELSE Returns(results)

\* classify_subnet with the relationship checked before the host check
classify_subnet_relationship_first(target_network, subnet, vnet_name, resource_group, subnet_network, results) ==
    IF is_subnet_overlap(target_network, subnet_network) = "exact"
    THEN file_subnet_match(results, subnet, vnet_name, resource_group,
                           subnet_network, "exact")
    ELSE IF /\ target_network.prefixlen = MaxPrefixLen
            /\ check_host_in_network(target_network, subnet_network)
    THEN Returns(append_match(results, "host_in_subnet",
                              subnet_match_info(subnet, vnet_name, resource_group,
                                                subnet_network, "host_in_subnet")))
    ELSE file_subnet_match(results, subnet, vnet_name, resource_group,
                           subnet_network,
                           is_subnet_overlap(target_network, subnet_network))

\* classify_subnet without the return after the host match: the subnet goes
\* on to the relationship check
classify_subnet_no_return(target_network, subnet, vnet_name, resource_group, subnet_network, results) ==
    file_subnet_match(
        IF /\ target_network.prefixlen = MaxPrefixLen
           /\ check_host_in_network(target_network, subnet_network)
        THEN append_match(results, "host_in_subnet",
                          subnet_match_info(subnet, vnet_name, resource_group,
                                            subnet_network, "host_in_subnet"))
        ELSE results,
        subnet, vnet_name, resource_group, subnet_network,
        is_subnet_overlap(target_network, subnet_network))

\* _analyze_subnet on a parsed subnet: the host check, whose match returns
\* at once, then the relationship
classify_subnet(target_network, subnet, vnet_name, resource_group, subnet_network, results) ==
    IF /\ target_network.prefixlen = MaxPrefixLen
       /\ check_host_in_network(target_network, subnet_network)
    THEN Returns(append_match(results, "host_in_subnet",
                              subnet_match_info(subnet, vnet_name, resource_group,
                                                subnet_network, "host_in_subnet")))
    ELSE file_subnet_match(results, subnet, vnet_name, resource_group,
                           subnet_network,
                           is_subnet_overlap(target_network, subnet_network))

\* _analyze_subnet, the try statement: the except clause catches
\* AddressValueError only
try_subnet(target_network, subnet, vnet_name, resource_group, parsed, results) ==
    IF parsed.exc = "AddressValueError" THEN Returns(results)
    ELSE IF parsed.exc # "none" THEN Raises(parsed.exc, results)
    ELSE classify_subnet(target_network, subnet, vnet_name, resource_group,
                         parsed.val, results)

\* SubnetAnalyzer._analyze_subnet
analyze_subnet(target_network, subnet, vnet_name, resource_group, results) ==
    try_subnet(target_network, subnet, vnet_name, resource_group,
               IPv4Network(subnet.address_prefix), results)

\* results['total_subnets_checked'] += 1
count_subnet(results) ==
    [results EXCEPT !.total_subnets_checked = @ + 1]

RECURSIVE analyze_prefixes(_, _, _, _)
\* the loop over vnet['address_prefixes'] after its k-th pass
next_prefix(target_network, vnet, k, step) ==
    IF step.exc # "none" THEN step
    ELSE analyze_prefixes(target_network, vnet, k + 1, step.val)

\* the loop over vnet['address_prefixes'], from its k-th element on
analyze_prefixes(target_network, vnet, k, results) ==
    IF k > Len(vnet.address_prefixes) THEN Returns(results)
    ELSE next_prefix(target_network, vnet, k,
                     analyze_prefix(target_network, vnet,
                                    vnet.address_prefixes[k], results))

RECURSIVE analyze_subnets(_, _, _, _)
\* next_subnet counting a subnet only when its prefix parsed
next_subnet_parsed_only(target_network, vnet, k, step) ==
    IF step.exc # "none" THEN step
    ELSE analyze_subnets(target_network, vnet, k + 1,
                         IF IPv4Network(vnet.subnets[k].address_prefix).exc = "none"
                         THEN count_subnet(step.val)
                         ELSE step.val)

\* the loop over vnet['subnets'] after the call of its k-th pass: the
\* subnet is counted when the call returns
next_subnet(target_network, vnet, k, step) ==
    IF step.exc # "none" THEN step
    ELSE analyze_subnets(target_network, vnet, k + 1, count_subnet(step.val))

\* the loop over vnet['subnets'], from its k-th element on
analyze_subnets(target_network, vnet, k, results) ==
    IF k > Len(vnet.subnets) THEN Returns(results)
    ELSE next_subnet(target_network, vnet, k,
                     analyze_subnet(target_network, vnet.subnets[k],
                                    vnet.name, vnet.resource_group, results))

\* _analyze_vnet after the loop over the address prefixes
then_subnets(target_network, vnet, prefixes) ==
    IF prefixes.exc # "none" THEN prefixes
    ELSE analyze_subnets(target_network, vnet, 1, prefixes.val)

\* SubnetAnalyzer._analyze_vnet: the address prefixes, then the subnets
analyze_vnet(target_network, vnet, results) ==
    then_subnets(target_network, vnet,
                 analyze_prefixes(target_network, vnet, 1, results))

\* SubnetAnalyzer.print_summary: total_matches
sum_matches(results) ==
    Len(results.matches["exact"]) + Len(results.matches["contains"])
        + Len(results.matches["contained"]) + Len(results.matches["overlap"])
        + Len(results.matches["host_in_subnet"])

(***************************************************************************)
(* Inputs.                                                                 *)
(***************************************************************************)
\* the lines typed as --ip or at the IP/Network prompt
RawInputs ==
    { <<" ", "1", "0", ".", "0", ".", "0", ".", "5", " ">>,
      <<"1", "0", ".", "0", ".", "0", ".", "9", "/", "2", "4">>,
      <<"1", "0", ".", "0", ".", "0", ".", "0", "/",
        "2", "5", "5", ".", "2", "5", "5", ".", "0", ".", "0">>,
      <<"1", "0", ".", "0", ".", "0", ".", "1", "2", "8", "/", "2", "5">>,
      <<"8", ".", "8", ".", "8", ".", "8">>,
      <<"1", "0", "0", ".", "6", "4", ".", "0", ".", "1">>,
      <<"2", "2", "4", ".", "0", ".", "0", ".", "5", "/", "3", "2">>,
      <<"2", "3", "9", ".", "2", "5", "5", ".", "0", ".", "1", "/", "4">>,
      <<"2", "2", "4", ".", "0", ".", "0", ".", "0", "/", "3">>,
      <<"2", "4", "0", ".", "0", ".", "0", ".", "1">>,
      <<"2", "5", "5", ".", "2", "5", "5", ".", "2", "5", "5", ".",
        "2", "5", "5", "/", "8">>,
      <<>>,
      <<" ", "\t">>,
      <<"1", "0", ".", "0", ".", "0">>,
      <<"1", "0", ".", "0", ".", "0", ".", "5", "/">>,
      <<"1", "0", ".", "0", ".", "0", ".", "0", "/", "3", "3">>,
      <<"1", "0", ".", "0", ".", "0", ".", "2", "5", "6", "/", "2", "4">> }

\* the lines typed at the "Are you sure this is correct? (y/N)" prompt
Answers ==
    { <<"y">>, <<" ", "Y", "E", "S", " ">>, <<>>, <<"n">>, <<"y", "e">> }

\* the address prefixes the inventory reports, well formed or not
PrefixPool ==
    { <<"1", "0", ".", "0", ".", "0", ".", "0", "/", "1", "6">>,
      <<"1", "0", ".", "0", ".", "0", ".", "0", "/", "2", "4">>,
      <<"1", "0", ".", "0", ".", "0", ".", "9", "/", "2", "4">>,
      <<"1", "0", ".", "0", ".", "0", ".", "5">>,
      <<"1", "0", ".", "0", ".", "0", "/", "2", "4">>,
      <<"1", "0", ".", "0", ".", "0", ".", "0", "/", "3", "3">> }

\* the size of a discovered list: its networks plus all their prefixes
MaxSize == 4

\* a network with exactly n prefixes, k of them address prefixes of the
\* network and n - k prefixes of its subnets
VnetBodies(n) ==
    UNION { { [address_prefixes |-> p, subnets |-> q] :
                p \in [1..k -> PrefixPool], q \in [1..(n - k) -> PrefixPool] } :
            k \in 0..n }

\* the lists of networks of total size at most size
RECURSIVE VnetLists(_)
VnetLists(size) ==
    {<<>>} \cup
    UNION { LET rests == VnetLists(size - 1 - n)
            IN  { <<x>> \o rest : x \in VnetBodies(n), rest \in rests } :
            n \in 0..(size - 1) }

\* the records AzureClient.get_vnets_in_resource_group builds: names are
\* the positions in the listing
vnet_info(list) ==
    [i \in 1..Len(list) |->
        [name |-> i,
         resource_group |-> "rg",
         address_prefixes |-> list[i].address_prefixes,
         subnets |-> [j \in 1..Len(list[i].subnets) |->
                         [name |-> j, address_prefix |-> list[i].subnets[j]]]]]

Discovered == { vnet_info(list) : list \in VnetLists(MaxSize) }

\* networks for the calls of the pairwise functions
AddressPool ==
    { <<0, 0, 0, 0>>, <<10, 0, 0, 0>>, <<10, 0, 0, 5>>, <<10, 0, 1, 0>>,
      <<10, 1, 0, 0>>, <<10, 128, 0, 0>>, <<172, 16, 0, 0>>,
      <<224, 0, 0, 5>>, <<255, 255, 255, 255>> }

PrefixLenPool == {0, 1, 8, 9, 15, 16, 23, 24, 25, 31, 32}

\* IPv4Network((address, prefixlen), strict=False)
network_of(addr, p) ==
    [network_address |-> and_netmask(addr, p), prefixlen |-> p]

NetworkPool == { network_of(addr, p) : addr \in AddressPool, p \in PrefixLenPool }

(***************************************************************************)
(* State.                                                                  *)
(***************************************************************************)
VARIABLES
    pc,              \* where the run is
    ip_input,        \* validate_input: its argument
    stdin_line,      \* the line the user types if asked to confirm
    outcome,         \* validate_input: what it returns, and whether it asked
    target_network,  \* analyze_ip_usage: target_network
    vnets,           \* analyze_ip_usage: vnets
    vi,              \* analyze_ip_usage: the position of its loop in vnets
    results,         \* analyze_ip_usage: results
    raised,          \* the exception that left analyze_ip_usage, or "none"
    total_matches,   \* print_summary: total_matches
    network1,        \* a pairwise call: its first argument
    network2,        \* a pairwise call: its second argument
    relationship12,  \* is_subnet_overlap(network1, network2)
    relationship21,  \* is_subnet_overlap(network2, network1)
    host_found       \* check_host_in_network(network1, network2)

vars == <<pc, ip_input, stdin_line, outcome, target_network, vnets, vi,
          results, raised, total_matches, network1, network2,
          relationship12, relationship21, host_found>>

validation_vars == <<ip_input, stdin_line, outcome>>

analysis_vars == <<target_network, vnets, vi, results, raised, total_matches>>

pair_vars == <<network1, network2, relationship12, relationship21, host_found>>

NoOutcome == Outcome(FALSE, NoNetwork, "", FALSE)

NoResults == new_results(NoNetwork, <<>>)

ValidationIdle ==
    ip_input = <<>> /\ stdin_line = <<>> /\ outcome = NoOutcome

AnalysisIdle ==
    /\ target_network = NoNetwork /\ vnets = <<>> /\ vi = 0
    /\ results = NoResults /\ raised = "none" /\ total_matches = 0

PairIdle ==
    /\ network1 = NoNetwork /\ network2 = NoNetwork
    /\ relationship12 = "" /\ relationship21 = "" /\ host_found = FALSE

(***************************************************************************)
(* The run of main.py: the input is validated, then analysed.              *)
(***************************************************************************)
InitMain == pc = "start" /\ ValidationIdle /\ AnalysisIdle /\ PairIdle

\* get_user_input: validate_input on the line given
ValidateInput ==
    /\ pc = "start"
    /\ \E raw \in RawInputs, answer \in Answers :
          /\ ip_input' = raw
          /\ stdin_line' = answer
          /\ outcome' = validate_input(raw, answer)
    /\ pc' = "validated"
    /\ UNCHANGED <<analysis_vars, pair_vars>>

\* run: the input was not valid, the program exits
ExitInvalid ==
    /\ pc = "validated"
    /\ ~outcome.is_valid
    /\ pc' = "exit"
    /\ UNCHANGED <<validation_vars, analysis_vars, pair_vars>>

\* analyze_ip_usage is called with the validated network and the networks
\* discovered; it builds results.  The locals of validate_input are gone.
\* run_analysis calls it for a list that is not empty; the function itself
\* takes any list, the empty one included.
AnalyzeIpUsage ==
    /\ pc = "validated"
    /\ outcome.is_valid
    /\ \E discovered \in Discovered :
          /\ vnets' = discovered
          /\ results' = new_results(outcome.network, discovered)
    /\ target_network' = outcome.network
    /\ vi' = 1
    /\ ip_input' = <<>>
    /\ stdin_line' = <<>>
    /\ outcome' = NoOutcome
    /\ pc' = "analyzing"
    /\ UNCHANGED <<raised, total_matches, pair_vars>>

\* the loop of analyze_ip_usage after the call of _analyze_vnet: results
\* was updated in place, also when the call raised
AfterAnalyzeVnet(step) ==
    /\ results' = step.val
    /\ raised' = step.exc
    /\ IF step.exc = "none"
       THEN vi' = vi + 1 /\ pc' = "analyzing"
       ELSE vi' = vi /\ pc' = "raised"

\* one pass of the loop of analyze_ip_usage: _analyze_vnet on the next
\* network
AnalyzeVnet ==
    /\ pc = "analyzing"
    /\ vi <= Len(vnets)
    /\ AfterAnalyzeVnet(analyze_vnet(target_network, vnets[vi], results))
    /\ UNCHANGED <<validation_vars, target_network, vnets, total_matches,
                   pair_vars>>

\* the loop is over: analyze_ip_usage returns results
AnalyzeReturn ==
    /\ pc = "analyzing"
    /\ vi > Len(vnets)
    /\ pc' = "done"
    /\ UNCHANGED <<validation_vars, analysis_vars, pair_vars>>

\* print_summary on the report returned
PrintSummary ==
    /\ pc = "done"
    /\ total_matches' = sum_matches(results)
    /\ pc' = "summary"
    /\ UNCHANGED <<validation_vars, target_network, vnets, vi, results,
                   raised, pair_vars>>

\* run_analysis: the exception reaches its handler, "Analysis failed"
AnalysisFailed ==
    /\ pc = "raised"
    /\ pc' = "failed"
    /\ UNCHANGED <<validation_vars, analysis_vars, pair_vars>>

(***************************************************************************)
(* The pairwise functions of IPValidator, called on any two networks: the  *)
(* call, the call with the arguments swapped, and the host check.          *)
(***************************************************************************)
InitPairs ==
    /\ pc = "pair"
    /\ network1 \in NetworkPool
    /\ network2 \in NetworkPool
    /\ relationship12 = "" /\ relationship21 = "" /\ host_found = FALSE
    /\ ValidationIdle /\ AnalysisIdle

CallIsSubnetOverlap ==
    /\ pc = "pair"
    /\ relationship12' = is_subnet_overlap(network1, network2)
    /\ pc' = "classified"
    /\ UNCHANGED <<validation_vars, analysis_vars, network1, network2,
                   relationship21, host_found>>

CallIsSubnetOverlapSwapped ==
    /\ pc = "classified"
    /\ relationship21' = is_subnet_overlap(network2, network1)
    /\ pc' = "swapped"
    /\ UNCHANGED <<validation_vars, analysis_vars, network1, network2,
                   relationship12, host_found>>

CallCheckHostInNetwork ==
    /\ pc = "swapped"
    /\ host_found' = check_host_in_network(network1, network2)
    /\ pc' = "checked"
    /\ UNCHANGED <<validation_vars, analysis_vars, network1, network2,
                   relationship12, relationship21>>

(***************************************************************************)
(* A behaviour is a run of main.py or a sequence of pairwise calls.        *)
(***************************************************************************)
Init == InitMain \/ InitPairs

Next ==
    \/ ValidateInput
    \/ ExitInvalid
    \/ AnalyzeIpUsage
    \/ AnalyzeVnet
    \/ AnalyzeReturn
    \/ PrintSummary
    \/ AnalysisFailed
    \/ CallIsSubnetOverlap
    \/ CallIsSubnetOverlapSwapped
    \/ CallCheckHostInNetwork

Spec == Init /\ [][Next]_vars

(***************************************************************************)
(* Ranges of addresses, stated on the bits: the addresses of a network are *)
(* those that agree with its network address on the first prefixlen bits.  *)
(***************************************************************************)
InRangeBits(xb, net) ==
    LET nb == bits(net.network_address)
    IN  \A k \in 1..net.prefixlen : xb[k] = nb[k]

InRange(addr, net) == InRangeBits(bits(addr), net)

\* the bits of the last address of a network
LastBits(net) ==
    LET nb == bits(net.network_address)
    IN  [k \in 1..32 |-> IF k <= net.prefixlen THEN nb[k] ELSE 1]

\* the range of a network is an interval: it holds a range when it holds
\* that range's first and last address
EveryAddressIn(inner, outer) ==
    /\ InRange(inner.network_address, outer)
    /\ InRangeBits(LastBits(inner), outer)

\* two intervals meet exactly when the first address of one lies in the
\* other
SharesAddress(a, b) ==
    \/ InRange(a.network_address, b)
    \/ InRange(b.network_address, a)

SameNetwork(a, b) ==
    a.network_address = b.network_address /\ a.prefixlen = b.prefixlen

Relationships == {"exact", "contains", "contained", "overlap", "none"}

\* the relationship of a to b as the specification orders its checks
Classify(a, b) ==
    IF SameNetwork(a, b) THEN "exact"
    ELSE IF EveryAddressIn(b, a) /\ b.prefixlen >= a.prefixlen THEN "contains"
    ELSE IF EveryAddressIn(a, b) /\ a.prefixlen >= b.prefixlen THEN "contained"
    ELSE IF SharesAddress(a, b) THEN "overlap"
    ELSE "none"

Returned == pc \in {"done", "summary"}

Classified == pc \in {"classified", "swapped", "checked"}

Swapped == pc \in {"swapped", "checked"}

\* the prefixes of the discovered networks: <<network, level, position>>
InputRecords ==
    UNION { { <<i, "vnet_address_space", k>> :
                k \in 1..Len(vnets[i].address_prefixes) }
            \cup { <<i, "subnet", j>> : j \in 1..Len(vnets[i].subnets) } :
            i \in 1..Len(vnets) }

PrefixOf(rec) ==
    IF rec[2] = "subnet"
    THEN vnets[rec[1]].subnets[rec[3]].address_prefix
    ELSE vnets[rec[1]].address_prefixes[rec[3]]

\* what the prefixes of the pool say, read by hand: the network of the
\* four that are well formed
Denoted(prefix) ==
    IF prefix = <<"1", "0", ".", "0", ".", "0", ".", "0", "/", "1", "6">>
    THEN [network_address |-> <<10, 0, 0, 0>>, prefixlen |-> 16]
    ELSE IF prefix = <<"1", "0", ".", "0", ".", "0", ".", "0", "/", "2", "4">>
    THEN [network_address |-> <<10, 0, 0, 0>>, prefixlen |-> 24]
    ELSE IF prefix = <<"1", "0", ".", "0", ".", "0", ".", "9", "/", "2", "4">>
    THEN [network_address |-> <<10, 0, 0, 0>>, prefixlen |-> 24]
    ELSE [network_address |-> <<10, 0, 0, 5>>, prefixlen |-> 32]

Malformed ==
    { <<"1", "0", ".", "0", ".", "0", "/", "2", "4">>,
      <<"1", "0", ".", "0", ".", "0", ".", "0", "/", "3", "3">> }

WellFormed(prefix) == prefix \notin Malformed

ParsedRecords == { rec \in InputRecords : WellFormed(PrefixOf(rec)) }

NetworkOf(rec) == Denoted(PrefixOf(rec))

(***************************************************************************)
(* C1: is_subnet_overlap returns 'exact', 'contains', 'contained' or       *)
(* 'overlap' only for two networks that share an address and 'none' only   *)
(* for two that share none; so a report with zero matches means that no    *)
(* parsed discovered prefix shares an address with the target.             *)
(***************************************************************************)
C1_RelationshipIffShared ==
    /\ Classified =>
          /\ relationship12 \in Relationships
          /\ relationship12 # "none" <=> SharesAddress(network1, network2)
    /\ (pc = "summary" /\ total_matches = 0) =>
          \A rec \in ParsedRecords : ~SharesAddress(target_network, NetworkOf(rec))

C1_Witness ==
    /\ pc = "summary"
    /\ total_matches = 0
    /\ Cardinality(ParsedRecords) >= 2

(***************************************************************************)
(* C2: is_subnet_overlap returns the first that matches of: 'exact' for    *)
(* the same network address and prefix length; 'contains' when every       *)
(* address of the second is in the first and the second's prefix is at     *)
(* least as long; 'contained' for the converse; 'overlap' when they share  *)
(* an address; else 'none'.  An identical pair is 'exact'.                 *)
(***************************************************************************)
C2_FirstMatchWins ==
    Classified =>
        /\ relationship12 = Classify(network1, network2)
        /\ network1 = network2 => relationship12 = "exact"

C2_Witness ==
    /\ pc = "classified"
    /\ network1 = network2
    /\ network1.prefixlen = 16
    /\ relationship12 = "exact"

(***************************************************************************)
(* C3: for two different networks, is_subnet_overlap(a, b) is 'contains'   *)
(* exactly when is_subnet_overlap(b, a) is 'contained'.                    *)
(***************************************************************************)
C3_ContainsIffContained ==
    (Swapped /\ network1 # network2) =>
        (relationship12 = "contains" <=> relationship21 = "contained")

C3_Witness ==
    /\ pc = "swapped"
    /\ network1 # network2
    /\ relationship12 = "contains"
    /\ relationship21 = "contained"


(***************************************************************************)
(* The report a list of discovered networks should give: each parsed       *)
(* prefix is filed once under the relationship of the target to it, a      *)
(* subnet that holds a host target under 'host_in_subnet'.                 *)
(***************************************************************************)
HostInsideOf(target, net) ==
    /\ target.prefixlen = 32
    /\ InRange(target.network_address, net)

HostInside(net) == HostInsideOf(target_network, net)

BucketFor(target, level, net) ==
    IF level = "subnet" /\ HostInsideOf(target, net) THEN "host_in_subnet"
    ELSE Classify(target, net)

ExpectedBucket(rec) == BucketFor(target_network, rec[2], NetworkOf(rec))

\* the positions of the matches of a bucket that name a record's network
\* and level, and for a subnet its name
MatchesOf(rec, k) ==
    { n \in 1..Len(results.matches[k]) :
        /\ results.matches[k][n].vnet_name = rec[1]
        /\ results.matches[k][n].type = rec[2]
        /\ rec[2] = "subnet" => results.matches[k][n].subnet_name = rec[3] }

SubnetRecords == { rec \in InputRecords : rec[2] = "subnet" }

\* the matches of bucket k at one level of network i, and the parsed
\* prefixes of that level that belong in k
LevelMatches(i, level, k) == MatchesOf(<<i, level, 0>>, k)

LevelRecords(i, level, k) ==
    { rec \in ParsedRecords :
        rec[1] = i /\ rec[2] = level /\ ExpectedBucket(rec) = k }

\* the matches of the report, by bucket and position
AllMatches ==
    UNION { { <<k, n>> : n \in 1..Len(results.matches[k]) } : k \in Buckets }

WellFormedSubnet(subnet) == WellFormed(subnet.address_prefix)

\* a discovered network without its prefixes that do not parse
WithoutMalformed(vnet) ==
    [vnet EXCEPT !.address_prefixes = SelectSeq(@, WellFormed),
                 !.subnets = SelectSeq(@, WellFormedSubnet)]

Cleaned == [i \in 1..Len(vnets) |-> WithoutMalformed(vnets[i])]

\* the matches analyze_ip_usage gives for a list in which every prefix parses
RECURSIVE MatchesFrom(_, _, _)
MatchesFrom(list, i, res) ==
    IF i > Len(list) THEN res.matches
    ELSE MatchesFrom(list, i + 1, analyze_vnet(target_network, list[i], res).val)

(***************************************************************************)
(* C4: a discovered prefix that does not parse, in its address part or in  *)
(* its mask part, is skipped: analyze_ip_usage raises nothing and returns  *)
(* a report whose matches are those of the input without the prefixes that *)
(* do not parse.                                                           *)
(***************************************************************************)
C4_MalformedSkipped ==
    /\ raised = "none"
    /\ Returned =>
          results.matches =
              MatchesFrom(Cleaned, 1, new_results(target_network, Cleaned))

\* the run that breaks it: a prefix with a bad mask part raises out of
\* analyze_ip_usage
C4_Witness ==
    /\ pc = "raised"
    /\ raised = "NetmaskValueError"
    /\ \E rec \in InputRecords : IPv4Network(PrefixOf(rec)).exc = "NetmaskValueError"

(***************************************************************************)
(* C5: a parsed subnet whose range holds a /32 target has exactly one      *)
(* match in 'host_in_subnet' and none in any other bucket; any other       *)
(* parsed subnet has one match, tagged 'subnet', in the bucket of its      *)
(* relationship to the target when that is not 'none', and none elsewhere. *)
(***************************************************************************)
C5_HostCheckShortCircuits ==
    Returned =>
        \A rec \in SubnetRecords \cap ParsedRecords : \A k \in Buckets :
            Cardinality(MatchesOf(rec, k)) =
                IF HostInside(NetworkOf(rec))
                THEN (IF k = "host_in_subnet" THEN 1 ELSE 0)
                ELSE (IF k = Classify(target_network, NetworkOf(rec)) THEN 1 ELSE 0)

C5_Witness ==
    /\ Returned
    /\ \E rec \in SubnetRecords \cap ParsedRecords :
          /\ HostInside(NetworkOf(rec))
          /\ NetworkOf(rec).prefixlen = 24
          /\ Cardinality(MatchesOf(rec, "host_in_subnet")) = 1
          /\ MatchesOf(rec, "contained") = {}

(***************************************************************************)
(* C6: in the report every match lies in the bucket named by its           *)
(* 'relationship' field, which is never 'none', and there are as many      *)
(* matches as parsed prefixes whose relationship to the target is not      *)
(* 'none': such a prefix is filed once, any other not at all.              *)
(***************************************************************************)
C6_OneBucketPerMatch ==
    Returned =>
        /\ \A k \in Buckets : \A n \in 1..Len(results.matches[k]) :
              /\ results.matches[k][n].relationship = k
              /\ results.matches[k][n].relationship # "none"
        /\ Cardinality(AllMatches) =
              Cardinality({ rec \in ParsedRecords : ExpectedBucket(rec) # "none" })
        /\ \A rec \in SubnetRecords \cap ParsedRecords :
              ExpectedBucket(rec) = "none" =>
                  \A k \in Buckets : MatchesOf(rec, k) = {}

C6_Witness ==
    /\ Returned
    /\ \E rec \in ParsedRecords : ExpectedBucket(rec) = "none"
    /\ \E rec \in ParsedRecords : ExpectedBucket(rec) = "contained"
    /\ Cardinality(AllMatches) = 1

(***************************************************************************)
(* C7: an address prefix of a network is filed by its relationship to the  *)
(* target alone, never under 'host_in_subnet'; a subnet is filed as it is  *)
(* when analysed on its own, whatever the address space of its network.    *)
(* Target 10.0.0.0/24 against the address space 10.0.0.0/16 with the       *)
(* subnet 10.0.0.0/24 gives a 'vnet_address_space' match in 'contained'    *)
(* and a 'subnet' match in 'exact'.                                        *)
(***************************************************************************)
Alone(rec) ==
    analyze_subnet(target_network, vnets[rec[1]].subnets[rec[3]],
                   vnets[rec[1]].name, vnets[rec[1]].resource_group,
                   new_results(target_network, <<>>)).val.matches

\* the matches of a record are as many, bucket by bucket, as in matches
FiledAs(rec, matches) ==
    \A k \in Buckets : Cardinality(MatchesOf(rec, k)) = Len(matches[k])

ExampleTarget == [network_address |-> <<10, 0, 0, 0>>, prefixlen |-> 24]

ExampleDiscovered ==
    << [name |-> 1, resource_group |-> "rg",
        address_prefixes |-> << <<"1", "0", ".", "0", ".", "0", ".", "0", "/", "1", "6">> >>,
        subnets |-> << [name |-> 1,
                        address_prefix |->
                            <<"1", "0", ".", "0", ".", "0", ".", "0", "/", "2", "4">>] >>] >>

C7_LevelsIndependent ==
    Returned =>
        /\ \A i \in 1..Len(vnets) :
              /\ LevelMatches(i, "vnet_address_space", "host_in_subnet") = {}
              /\ \A k \in Buckets \ {"host_in_subnet"} :
                    Cardinality(LevelMatches(i, "vnet_address_space", k)) =
                        Cardinality({ rec \in ParsedRecords :
                            /\ rec[1] = i
                            /\ rec[2] = "vnet_address_space"
                            /\ Classify(target_network, NetworkOf(rec)) = k })
        /\ \A rec \in SubnetRecords \cap ParsedRecords : FiledAs(rec, Alone(rec))
        /\ (target_network = ExampleTarget /\ vnets = ExampleDiscovered) =>
              /\ Len(results.matches["contained"]) = 1
              /\ results.matches["contained"][1].type = "vnet_address_space"
              /\ Len(results.matches["exact"]) = 1
              /\ results.matches["exact"][1].type = "subnet"
              /\ \A k \in Buckets \ {"contained", "exact"} : results.matches[k] = <<>>

C7_Witness ==
    /\ pc = "done"
    /\ target_network = ExampleTarget
    /\ vnets = ExampleDiscovered
    /\ results.matches["contained"][1].type = "vnet_address_space"
    /\ results.matches["exact"][1].type = "subnet"

(***************************************************************************)
(* C8: the report counts every discovered network and every subnet record  *)
(* of every network, matched or not, parsed or not; for no discovered      *)
(* network the five buckets are empty and both counts are zero.            *)
(***************************************************************************)
C8_CountsEveryRecord ==
    Returned =>
        /\ results.total_vnets_checked = Len(vnets)
        /\ results.total_subnets_checked = Cardinality(SubnetRecords)
        /\ vnets = <<>> =>
              /\ \A k \in Buckets : results.matches[k] = <<>>
              /\ DOMAIN results.matches = Buckets
              /\ results.total_vnets_checked = 0
              /\ results.total_subnets_checked = 0

C8_Witness ==
    /\ pc = "done"
    /\ Len(vnets) = 2
    /\ \E rec \in SubnetRecords : rec \notin ParsedRecords
    /\ \E rec \in SubnetRecords \cap ParsedRecords : ExpectedBucket(rec) = "none"
    /\ results.total_subnets_checked = 2

(***************************************************************************)
(* The network validate_input parses from its argument: the stripped line, *)
(* with '/32' appended when it holds no '/'.                               *)
(***************************************************************************)
Validated == pc = "validated"

InputNetwork ==
    IF contains_char(ip_input, "/") THEN IPv4Network(strip(ip_input))
    ELSE IPv4Network(strip(ip_input) \o <<"/", "3", "2">>)

InputParses == strip(ip_input) # <<>> /\ InputNetwork.exc = "none"

MulticastRange == [network_address |-> <<224, 0, 0, 0>>, prefixlen |-> 4]

InMulticastRange(net) == EveryAddressIn(net, MulticastRange)

AtOrAboveClassE(net) == net.network_address[1] >= 240

Failed(error) ==
    /\ ~outcome.is_valid
    /\ ~outcome.prompted
    /\ outcome.error = error

(***************************************************************************)
(* C9: validate_input fails without asking for the confirmation on every   *)
(* input whose network lies in 224.0.0.0/4, with the multicast error, and  *)
(* on every input whose network address is at or above 240.0.0.0, with     *)
(* the Class E error: both checks come before the public-address check.    *)
(***************************************************************************)
C9_MulticastAndClassERejected ==
    (Validated /\ InputParses) =>
        /\ InMulticastRange(InputNetwork.val) =>
              Failed("Multicast addresses are not supported in VNet")
        /\ AtOrAboveClassE(InputNetwork.val) =>
              Failed("Class E addresses are not supported")

C9_Witness ==
    /\ Validated
    /\ InputParses
    /\ InputNetwork.val = [network_address |-> <<224, 0, 0, 5>>, prefixlen |-> 32]
    /\ stdin_line = <<"y">>
    /\ Failed("Multicast addresses are not supported in VNet")

(***************************************************************************)
(* C10: validate_input returns a public network only when the line typed   *)
(* at the confirmation is 'y' or 'yes' once trimmed and lower-cased; any    *)
(* other line, the empty one included, gives the cancelled error; an input *)
(* whose network is not public is not asked and gets the same outcome      *)
(* whatever the line.                                                      *)
(***************************************************************************)
Accepted == { <<"y">>, <<" ", "Y", "E", "S", " ">> }

C10_PublicNeedsConfirmation ==
    (Validated /\ InputParses) =>
        /\ (outcome.is_valid /\ is_global(outcome.network)) =>
              outcome.prompted /\ stdin_line \in Accepted
        /\ (outcome.prompted /\ stdin_line \notin Accepted) =>
              /\ ~outcome.is_valid
              /\ outcome.error = "Operation cancelled by user"
        /\ ~is_global(InputNetwork.val) =>
              /\ ~outcome.prompted
              /\ \A answer \in Answers : validate_input(ip_input, answer) = outcome

C10_Witness ==
    /\ Validated
    /\ outcome.is_valid
    /\ outcome.prompted
    /\ is_global(outcome.network)
    /\ stdin_line = <<" ", "Y", "E", "S", " ">>

(***************************************************************************)
(* What the accepted lines say, read by hand: the address written and the  *)
(* prefix length the mask written stands for (32 when there is none).      *)
(***************************************************************************)
Reading(line, masked, address, prefixlen) ==
    [line |-> line, masked |-> masked, address |-> address, prefixlen |-> prefixlen]

Readings ==
    { Reading(<<" ", "1", "0", ".", "0", ".", "0", ".", "5", " ">>,
              FALSE, <<10, 0, 0, 5>>, 32),
      Reading(<<"1", "0", ".", "0", ".", "0", ".", "9", "/", "2", "4">>,
              TRUE, <<10, 0, 0, 9>>, 24),
      Reading(<<"1", "0", ".", "0", ".", "0", ".", "0", "/",
                "2", "5", "5", ".", "2", "5", "5", ".", "0", ".", "0">>,
              TRUE, <<10, 0, 0, 0>>, 16),
      Reading(<<"1", "0", ".", "0", ".", "0", ".", "1", "2", "8", "/", "2", "5">>,
              TRUE, <<10, 0, 0, 128>>, 25),
      Reading(<<"8", ".", "8", ".", "8", ".", "8">>, FALSE, <<8, 8, 8, 8>>, 32),
      Reading(<<"1", "0", "0", ".", "6", "4", ".", "0", ".", "1">>,
              FALSE, <<100, 64, 0, 1>>, 32),
      Reading(<<"2", "2", "4", ".", "0", ".", "0", ".", "0", "/", "3">>,
              TRUE, <<224, 0, 0, 0>>, 3) }

\* the lines that are empty once trimmed, that hold no mask and no dotted
\* quad, and that hold a bad mask or address part
BlankLines == { <<>>, <<" ", "\t">> }

NotDottedQuad == { <<"1", "0", ".", "0", ".", "0">> }

BadCidr ==
    { <<"1", "0", ".", "0", ".", "0", ".", "0", "/", "3", "3">>,
      <<"1", "0", ".", "0", ".", "0", ".", "2", "5", "6", "/", "2", "4">>,
      <<"1", "0", ".", "0", ".", "0", ".", "5", "/">> }

HostBitsClear(net) ==
    \A k \in (net.prefixlen + 1)..32 : bits(net.network_address)[k] = 0

\* net is the network of the given prefix length that holds the address
Canonical(net, address, prefixlen) ==
    /\ net.prefixlen = prefixlen
    /\ InRange(address, net)
    /\ HostBitsClear(net)

(***************************************************************************)
(* C11: a successful validate_input returns the canonical network of the   *)
(* trimmed line: prefix length 32 and the host address for a dotted quad   *)
(* without mask, the given prefix length and the address with its host     *)
(* bits cleared for 'address/prefix'.  A blank line, a mask-less line that *)
(* is no dotted quad and a line with a bad mask or address part fail.      *)
(* Validating the string form of a returned network returns it again.      *)
(***************************************************************************)
C11_CanonicalNetwork ==
    Validated =>
        /\ outcome.is_valid =>
              /\ \E r \in Readings :
                    /\ r.line = ip_input
                    /\ Canonical(outcome.network, r.address, r.prefixlen)
                    /\ ~r.masked =>
                          /\ outcome.network.prefixlen = 32
                          /\ outcome.network.network_address = r.address
              /\ validate_input(str_network(outcome.network), stdin_line) = outcome
        /\ ip_input \in BlankLines => Failed("Empty input provided")
        /\ ip_input \in NotDottedQuad => Failed("Invalid IP address format")
        /\ ip_input \in BadCidr => Failed("Invalid CIDR notation")

C11_Witness ==
    /\ Validated
    /\ outcome.is_valid
    /\ ip_input = <<"1", "0", ".", "0", ".", "0", ".", "9", "/", "2", "4">>
    /\ outcome.network = [network_address |-> <<10, 0, 0, 0>>, prefixlen |-> 24]
    /\ str_network(outcome.network) # ip_input

(***************************************************************************)
(* Discovery order: the networks in the order of the list, in each network *)
(* its address prefixes in their order, then its subnets in theirs.        *)
(***************************************************************************)
RecordsOfVnet(i) ==
    [k \in 1..Len(vnets[i].address_prefixes) |-> <<i, "vnet_address_space", k>>]
        \o [j \in 1..Len(vnets[i].subnets) |-> <<i, "subnet", j>>]

RECURSIVE RecordsFrom(_)
RecordsFrom(i) ==
    IF i > Len(vnets) THEN <<>> ELSE RecordsOfVnet(i) \o RecordsFrom(i + 1)

\* the records of the networks analysed so far that belong in bucket k
FiledSoFar(rec, k) ==
    /\ rec[1] < vi
    /\ WellFormed(PrefixOf(rec))
    /\ ExpectedBucket(rec) = k

ExpectedOrder(k) == SelectSeq(RecordsFrom(1), LAMBDA rec : FiledSoFar(rec, k))

\* what a match tells of the record it was made for
KeyOfRecord(rec) ==
    <<rec[1], rec[2], IF rec[2] = "subnet" THEN rec[3] ELSE 0,
      str_network(NetworkOf(rec))>>

KeyOfMatch(m) ==
    <<m.vnet_name, m.type, IF m.type = "subnet" THEN m.subnet_name ELSE 0,
      m.network>>

\* the matches are those of the records, one for one and in their order
MadeFor(matches, records) ==
    /\ Len(matches) = Len(records)
    /\ \A n \in 1..Len(matches) : KeyOfMatch(matches[n]) = KeyOfRecord(records[n])

InDiscoveryOrder ==
    \A k \in Buckets : MadeFor(results.matches[k], ExpectedOrder(k))

IsPrefixOf(s, t) ==
    /\ Len(s) <= Len(t)
    /\ \A n \in 1..Len(s) : s[n] = t[n]

(***************************************************************************)
(* C12: each bucket lists its matches in discovery order, after every      *)
(* network analysed and in the report returned; and every step of a run    *)
(* leaves the matches a bucket already holds in place and unchanged,       *)
(* adding only at its end.                                                 *)
(***************************************************************************)
C12_DiscoveryOrder ==
    /\ [](pc \in {"analyzing", "done", "summary"} => InDiscoveryOrder)
    /\ [][\A k \in Buckets : IsPrefixOf(results.matches[k], results'.matches[k])]_vars

C12_Witness ==
    /\ pc = "done"
    /\ Len(vnets) = 1
    /\ Len(results.matches["contained"]) = 3
    /\ results.matches["contained"][1].type = "vnet_address_space"
    /\ results.matches["contained"][2].type = "vnet_address_space"
    /\ results.matches["contained"][1].network # results.matches["contained"][2].network
    /\ results.matches["contained"][3].type = "subnet"

(***************************************************************************)
(* C13: check_host_in_network(host, subnet) is true exactly when host has  *)
(* prefix length 32 and its address lies in the range of subnet; for a     *)
(* host of any other prefix length it is false for every subnet.           *)
(***************************************************************************)
Checked == pc = "checked"

C13_HostCheck ==
    Checked =>
        /\ host_found \in BOOLEAN
        /\ host_found <=>
              (network1.prefixlen = 32 /\ InRange(network1.network_address, network2))
        /\ network1.prefixlen # 32 => ~host_found

C13_Witness ==
    /\ Checked
    /\ ~host_found
    /\ network1.prefixlen = 25
    /\ network2.prefixlen = 24
    /\ InRange(network1.network_address, network2)

(***************************************************************************)
(* C14: two networks of the same prefix length and different network       *)
(* addresses are 'none' to each other in both orders of the arguments:     *)
(* never 'contains', 'contained' or 'overlap'.                             *)
(***************************************************************************)
C14_SameLengthDisjoint ==
    (/\ Swapped
     /\ network1.prefixlen = network2.prefixlen
     /\ network1.network_address # network2.network_address) =>
        /\ relationship12 = "none"
        /\ relationship21 = "none"
        /\ ~SharesAddress(network1, network2)

\* the two halves of 10.0.0.0/8
C14_Witness ==
    /\ pc = "swapped"
    /\ network1 = [network_address |-> <<10, 0, 0, 0>>, prefixlen |-> 9]
    /\ network2 = [network_address |-> <<10, 128, 0, 0>>, prefixlen |-> 9]
    /\ relationship12 = "none"
    /\ relationship21 = "none"

(***************************************************************************)
(* C15: no network validate_input returns holds a multicast or Class E     *)
(* address: its whole range, the last address included, lies below         *)
(* 224.0.0.0, that is, the three leading bits of its last address are not  *)
(* all ones.                                                               *)
(***************************************************************************)
AtOrAbove224(b) == b[1] = 1 /\ b[2] = 1 /\ b[3] = 1

C15_RangeBelowMulticast ==
    (Validated /\ outcome.is_valid) =>
        /\ ~AtOrAbove224(bits(outcome.network.network_address))
        /\ ~AtOrAbove224(LastBits(outcome.network))

\* the run that breaks it: 224.0.0.0/3, confirmed as public, is returned
C15_Witness ==
    /\ Validated
    /\ outcome.is_valid
    /\ outcome.prompted
    /\ outcome.network = [network_address |-> <<224, 0, 0, 0>>, prefixlen |-> 3]
    /\ stdin_line = <<"y">>

(***************************************************************************)
(* C16: is_subnet_overlap never returns 'overlap': two networks that share *)
(* an address are nested, one holding every address of the other; so the   *)
(* 'overlap' bucket of every report is empty.                              *)
(***************************************************************************)
Nested(a, b) == EveryAddressIn(a, b) \/ EveryAddressIn(b, a)

C16_NeverOverlap ==
    /\ Classified =>
          /\ relationship12 # "overlap"
          /\ SharesAddress(network1, network2) => Nested(network1, network2)
    /\ Swapped => relationship21 # "overlap"
    /\ results.matches["overlap"] = <<>>

\* two networks that end at the same address
C16_Witness ==
    /\ pc = "classified"
    /\ network1 = [network_address |-> <<10, 0, 0, 0>>, prefixlen |-> 23]
    /\ network2 = [network_address |-> <<10, 0, 1, 0>>, prefixlen |-> 24]
    /\ relationship12 = "contains"

(***************************************************************************)
(* C17: for a target of prefix length 32 every match of type 'subnet' is   *)
(* in 'host_in_subnet', none in 'exact', 'contains', 'contained' or        *)
(* 'overlap'; a subnet that is the target itself is filed under            *)
(* 'host_in_subnet' and not under 'exact', while an address prefix of a    *)
(* network that is the target itself is filed under 'exact'.               *)
(***************************************************************************)
IsTarget(rec) == SameNetwork(NetworkOf(rec), target_network)

C17_HostTargetSubnets ==
    (Returned /\ target_network.prefixlen = 32) =>
        /\ \A k \in Buckets \ {"host_in_subnet"} :
              \A n \in 1..Len(results.matches[k]) :
                  results.matches[k][n].type # "subnet"
        /\ \A rec \in SubnetRecords \cap ParsedRecords :
              IsTarget(rec) =>
                  /\ Cardinality(MatchesOf(rec, "host_in_subnet")) = 1
                  /\ MatchesOf(rec, "exact") = {}
        /\ \A i \in 1..Len(vnets) :
              Cardinality(LevelMatches(i, "vnet_address_space", "exact")) =
                  Cardinality({ rec \in ParsedRecords :
                      /\ rec[1] = i
                      /\ rec[2] = "vnet_address_space"
                      /\ IsTarget(rec) })

C17_Witness ==
    /\ pc = "done"
    /\ target_network = [network_address |-> <<10, 0, 0, 5>>, prefixlen |-> 32]
    /\ \E rec \in SubnetRecords \cap ParsedRecords : IsTarget(rec)
    /\ Len(results.matches["exact"]) = 1
    /\ results.matches["exact"][1].type = "vnet_address_space"
    /\ Len(results.matches["host_in_subnet"]) = 1
    /\ results.matches["host_in_subnet"][1].network = results.matches["exact"][1].network

=============================================================================
